---------------------------- MODULE Spec2Model ----------------------------
(***************************************************************************)
(* Model of examples-for-workflow-for-python-package-development.py.       *)
(*                                                                         *)
(* The file is a script executed top to bottom by the interpreter:         *)
(*   line 6      import numpy as np                                        *)
(*   line 7      import scipy as sp                                        *)
(*   line 8      from scipy import stats                                   *)
(*   line 11     sample_a = np.random.randn(1000)                          *)
(*   line 12     sample_b = np.random.randn(1000)                          *)
(*   line 15     t_stat, p_value = sp.stats.ttest_ind(sample_a, sample_b)  *)
(*   line 21     def add_two(x:int) -> int                                 *)
(* and, once the module body has run, add_two can be called any number of  *)
(* times by whoever loaded the module (a session, an importer, doctest).   *)
(*                                                                         *)
(* Every variable is indexed by a run: a run is one execution of the       *)
(* script in its own interpreter.  Spec executes one run; SpecPair         *)
(* executes two runs side by side so that results of different runs can    *)
(* be compared.                                                            *)
(*                                                                         *)
(* Floating-point values are represented by integers (sample values in    *)
(* whole units, the statistic in tenths, the p-value in hundredths).  The  *)
(* numerical                                                               *)
(* routines of numpy and scipy are not part of the file: a library call    *)
(* is a choice among the results the library can hand back, or a fault.    *)
(***************************************************************************)
EXTENDS Integers, Sequences, FiniteSets

VARIABLES
    pc,         \* pc[r]: the statement run r executes next
    globals,    \* globals[r]: the names bound in the module namespace
    sample_a,   \* sample_a[r]: value of sample_a (<<>> while unbound)
    sample_b,   \* sample_b[r]: value of sample_b (<<>> while unbound)
    t_stat,     \* t_stat[r]: value of t_stat (0 while unbound)
    p_value,    \* p_value[r]: value of p_value (0 while unbound)
    err,        \* err[r]: statement whose exception ended the run, or "none"
    lib_calls,  \* lib_calls[r]: library calls made so far, by function,
                \* whether they returned or raised
    last        \* last[r]: the most recent add_two call and its outcome

vars == <<pc, globals, sample_a, sample_b, t_stat, p_value, err, lib_calls, last>>

(***************************************************************************)
(* Bounds of the model.                                                    *)
(***************************************************************************)
ArgBound == 1       \* add_two is called with every integer in -ArgBound..ArgBound
NumStreams == 3     \* number of distinct generator outputs a draw can yield

Runs == {1, 2}

\* Arguments handed to add_two: small integers of both signs, the docstring
\* example, and values next to the limits of the usual fixed-width types.
Args == (-ArgBound..ArgBound) \cup {10, 32767, 2147483645, -2147483647}

(***************************************************************************)
(* Library collaborators.                                                  *)
(***************************************************************************)

\* np.random.randn(n): the arrays of n values the generator can return.
\* Stream k stands for one state of the hidden global generator.
randn(n) ==
    { [i \in 1..n |-> ((i * k) % 9) - 4] : k \in 1..NumStreams }

RECURSIVE SumRange(_, _, _)
\* Sum of a[lo..hi], by halving the range.
SumRange(a, lo, hi) ==
    IF lo > hi THEN 0
    ELSE IF lo = hi THEN a[lo]
    ELSE LET mid == (lo + hi) \div 2
         IN  SumRange(a, lo, mid) + SumRange(a, mid + 1, hi)

\* Sum of the values of an array.
Sum(a) == SumRange(a, 1, Len(a))

\* sp.stats.ttest_ind(a, b): the (statistic, pvalue) results the library can
\* hand back for two arrays of equal length.  The statistic is the difference
\* of the two means over a positive standard error, so it has the sign of
\* Sum(a) - Sum(b); equal means give statistic 0 and p-value 1.
ttest_ind(a, b) ==
    LET d == Sum(a) - Sum(b)
    IN  IF d = 0 THEN { <<0, 100>> }
        ELSE { <<(IF d > 0 THEN m[1] ELSE -m[1]), m[2]>> :
                  m \in { <<20, 5>>, <<13, 19>> } }

(***************************************************************************)
(* add_two, line 39: return x + 2                                          *)
(***************************************************************************)

\* Variant: the constant is off by one.
add_two_off_by_one(x) == x + 1

\* Variant: the sum is kept in a 16-bit two's-complement integer.
add_two_int16(x) ==
    LET s == ((x % 65536) + 2) % 65536
    IN  IF s >= 32768 THEN s - 65536 ELSE s

add_two(x) == x + 2

NoCall == [called |-> FALSE, arg |-> 0, outcome |-> "none", ret |-> 0]

(***************************************************************************)
(* Initial state: a fresh interpreter about to execute the module body.    *)
(***************************************************************************)
Init ==
    /\ pc = [r \in Runs |-> "import_np"]
    /\ globals = [r \in Runs |-> {}]
    /\ sample_a = [r \in Runs |-> <<>>]
    /\ sample_b = [r \in Runs |-> <<>>]
    /\ t_stat = [r \in Runs |-> 0]
    /\ p_value = [r \in Runs |-> 0]
    /\ err = [r \in Runs |-> "none"]
    /\ lib_calls = [r \in Runs |-> [randn |-> 0, ttest_ind |-> 0]]
    /\ last = [r \in Runs |-> NoCall]

(***************************************************************************)
(* Statements of the module body.                                          *)
(***************************************************************************)

\* Line 6: import numpy as np
ImportNp(r) ==
    /\ pc[r] = "import_np"
    /\ pc' = [pc EXCEPT ![r] = "import_sp"]
    /\ globals' = [globals EXCEPT ![r] = @ \cup {"np"}]
    /\ UNCHANGED <<sample_a, sample_b, t_stat, p_value, err, lib_calls, last>>

\* Line 7: import scipy as sp
ImportSp(r) ==
    /\ pc[r] = "import_sp"
    /\ pc' = [pc EXCEPT ![r] = "import_stats"]
    /\ globals' = [globals EXCEPT ![r] = @ \cup {"sp"}]
    /\ UNCHANGED <<sample_a, sample_b, t_stat, p_value, err, lib_calls, last>>

\* Line 8: from scipy import stats
ImportStats(r) ==
    /\ pc[r] = "import_stats"
    /\ pc' = [pc EXCEPT ![r] = "draw_a"]
    /\ globals' = [globals EXCEPT ![r] = @ \cup {"stats"}]
    /\ UNCHANGED <<sample_a, sample_b, t_stat, p_value, err, lib_calls, last>>

\* Line 11: sample_a = np.random.randn(1000)
DrawA(r) ==
    /\ pc[r] = "draw_a"
    /\ \E s \in randn(1000) :
          sample_a' = [sample_a EXCEPT ![r] = s]
    /\ lib_calls' = [lib_calls EXCEPT ![r].randn = @ + 1]
    /\ globals' = [globals EXCEPT ![r] = @ \cup {"sample_a"}]
    /\ pc' = [pc EXCEPT ![r] = "draw_b"]
    /\ UNCHANGED <<sample_b, t_stat, p_value, err, last>>

\* Variant of line 12: the size literal is mistyped as 100.
DrawB_short(r) ==
    /\ pc[r] = "draw_b"
    /\ \E s \in randn(100) :
          sample_b' = [sample_b EXCEPT ![r] = s]
    /\ lib_calls' = [lib_calls EXCEPT ![r].randn = @ + 1]
    /\ globals' = [globals EXCEPT ![r] = @ \cup {"sample_b"}]
    /\ pc' = [pc EXCEPT ![r] = "ttest"]
    /\ UNCHANGED <<sample_a, t_stat, p_value, err, last>>

\* Line 12: sample_b = np.random.randn(1000)
DrawB(r) ==
    /\ pc[r] = "draw_b"
    /\ \E s \in randn(1000) :
          sample_b' = [sample_b EXCEPT ![r] = s]
    /\ lib_calls' = [lib_calls EXCEPT ![r].randn = @ + 1]
    /\ globals' = [globals EXCEPT ![r] = @ \cup {"sample_b"}]
    /\ pc' = [pc EXCEPT ![r] = "ttest"]
    /\ UNCHANGED <<sample_a, t_stat, p_value, err, last>>

\* Line 15: t_stat, p_value = sp.stats.ttest_ind(sample_a, sample_b)
TTest(r) ==
    /\ pc[r] = "ttest"
    /\ \E res \in ttest_ind(sample_a[r], sample_b[r]) :
          /\ t_stat' = [t_stat EXCEPT ![r] = res[1]]
          /\ p_value' = [p_value EXCEPT ![r] = res[2]]
    /\ lib_calls' = [lib_calls EXCEPT ![r].ttest_ind = @ + 1]
    /\ globals' = [globals EXCEPT ![r] = @ \cup {"t_stat", "p_value"}]
    /\ pc' = [pc EXCEPT ![r] = "def"]
    /\ UNCHANGED <<sample_a, sample_b, err, last>>

\* Variant of line 21: the statement also rebinds the name p_value.
Def_rebinds(r) ==
    /\ pc[r] = "def"
    /\ globals' = [globals EXCEPT ![r] = @ \cup {"add_two"}]
    /\ p_value' = [p_value EXCEPT ![r] = 0]
    /\ pc' = [pc EXCEPT ![r] = "done"]
    /\ UNCHANGED <<sample_a, sample_b, t_stat, err, lib_calls, last>>

\* Line 21: the def statement binds the name add_two; the module body ends.
Def(r) ==
    /\ pc[r] = "def"
    /\ globals' = [globals EXCEPT ![r] = @ \cup {"add_two"}]
    /\ pc' = [pc EXCEPT ![r] = "done"]
    /\ UNCHANGED <<sample_a, sample_b, t_stat, p_value, err, lib_calls, last>>

\* The statements of lines 6-15: each of them can raise.
FaultStmts ==
    {"import_np", "import_sp", "import_stats", "draw_a", "draw_b", "ttest"}

\* The library call counts c after the call of statement stmt was made: the
\* call of line 11 or 12 is a randn call, the call of line 15 a ttest_ind
\* call, and an import statement calls neither.
CountCall(c, stmt) ==
    CASE stmt \in {"draw_a", "draw_b"} -> [c EXCEPT !.randn = @ + 1]
      [] stmt = "ttest"                -> [c EXCEPT !.ttest_ind = @ + 1]
      [] OTHER                         -> c

\* Variant: the exception is caught and the script goes on with the next
\* statement.
Fault_swallowed(r) ==
    LET next == CASE pc[r] = "import_np"    -> "import_sp"
                  [] pc[r] = "import_sp"    -> "import_stats"
                  [] pc[r] = "import_stats" -> "draw_a"
                  [] pc[r] = "draw_a"       -> "draw_b"
                  [] pc[r] = "draw_b"       -> "ttest"
                  [] OTHER                  -> "def"
    IN  /\ pc[r] \in FaultStmts
        /\ err' = [err EXCEPT ![r] = pc[r]]
        /\ pc' = [pc EXCEPT ![r] = next]
        /\ lib_calls' = [lib_calls EXCEPT ![r] = CountCall(@, pc[r])]
        /\ UNCHANGED <<globals, sample_a, sample_b, t_stat, p_value, last>>

\* An exception raised inside lines 6-15: by an import, or by the library
\* call of the statement, which was made and raised.  The module has no try
\* statement: the exception leaves the module body and the run ends at the
\* statement that raised.  That statement binds nothing; the names bound by
\* the statements before it stay bound.
Fault(r) ==
    /\ pc[r] \in FaultStmts
    /\ err' = [err EXCEPT ![r] = pc[r]]
    /\ pc' = [pc EXCEPT ![r] = "error"]
    /\ lib_calls' = [lib_calls EXCEPT ![r] = CountCall(@, pc[r])]
    /\ UNCHANGED <<globals, sample_a, sample_b, t_stat, p_value, last>>

\* Variant: the body stores its result in the module-level name t_stat.
Call_writes_global(r, x) ==
    /\ pc[r] = "done"
    /\ "add_two" \in globals[r]
    /\ last' = [last EXCEPT ![r] =
                  [called |-> TRUE, arg |-> x, outcome |-> "return",
                   ret |-> add_two(x)]]
    /\ t_stat' = [t_stat EXCEPT ![r] = add_two(x)]
    /\ UNCHANGED <<pc, globals, sample_a, sample_b, p_value, err, lib_calls>>

\* Variant: the body rejects negative arguments with an exception.
Call_rejects_negative(r, x) ==
    /\ pc[r] = "done"
    /\ "add_two" \in globals[r]
    /\ last' = [last EXCEPT ![r] =
                  IF x < 0
                  THEN [called |-> TRUE, arg |-> x, outcome |-> "raise",
                        ret |-> 0]
                  ELSE [called |-> TRUE, arg |-> x, outcome |-> "return",
                        ret |-> add_two(x)]]
    /\ UNCHANGED <<pc, globals, sample_a, sample_b, t_stat, p_value, err, lib_calls>>

\* Variant: the body reads the module-level name p_value instead of x.
Call_reads_global(r, x) ==
    /\ pc[r] = "done"
    /\ "add_two" \in globals[r]
    /\ last' = [last EXCEPT ![r] =
                  [called |-> TRUE, arg |-> x, outcome |-> "return",
                   ret |-> add_two(p_value[r])]]
    /\ UNCHANGED <<pc, globals, sample_a, sample_b, t_stat, p_value, err, lib_calls>>

\* A call add_two(x) with an integer x, made after the module body has run.
\* Lines 21-39: the body is the single statement return x + 2.
Call(r, x) ==
    /\ pc[r] = "done"
    /\ "add_two" \in globals[r]
    /\ last' = [last EXCEPT ![r] =
                  [called |-> TRUE, arg |-> x, outcome |-> "return",
                   ret |-> add_two(x)]]
    /\ UNCHANGED <<pc, globals, sample_a, sample_b, t_stat, p_value, err, lib_calls>>

\* One step of run r.
Step(r) ==
    \/ ImportNp(r)
    \/ ImportSp(r)
    \/ ImportStats(r)
    \/ DrawA(r)
    \/ DrawB(r)
    \/ TTest(r)
    \/ Def(r)
    \/ Fault(r)
    \/ \E x \in Args : Call(r, x)

\* One execution of the script.
Next == Step(1)

Spec == Init /\ [][Next]_vars

\* Two executions of the script, each in its own interpreter.
NextPair == \E r \in Runs : Step(r)

SpecPair == Init /\ [][NextPair]_vars

(***************************************************************************)
(* Properties.                                                             *)
(***************************************************************************)

\* C1: every completed call add_two(x) returned exactly x + 2, for negative,
\* zero and positive x; in particular add_two(10) returned 12.
C1_ReturnsArgPlusTwo ==
    \A r \in Runs :
        last[r].called =>
            /\ last[r].ret = last[r].arg + 2
            /\ (last[r].arg = 10 => last[r].ret = 12)

\* The docstring example has been executed.
C1_Witness ==
    /\ last[1].called
    /\ last[1].arg = 10
    /\ last[1].ret = 12

\* C2: a call of add_two changes no module-level value: in every step taken
\* once the module body has finished (such steps are add_two calls), the
\* bound names, sample_a, sample_b, t_stat, p_value and the library call
\* counts are left as they were.
C2_CallLeavesModuleUntouched ==
    [][\A r \in Runs :
          pc[r] = "done" =>
              /\ pc'[r] = "done"
              /\ globals'[r] = globals[r]
              /\ sample_a'[r] = sample_a[r]
              /\ sample_b'[r] = sample_b[r]
              /\ t_stat'[r] = t_stat[r]
              /\ p_value'[r] = p_value[r]
              /\ lib_calls'[r] = lib_calls[r]
              /\ err'[r] = err[r]]_vars

\* add_two has been called in a module holding both samples and the test
\* results.
C2_Witness ==
    /\ pc[1] = "done"
    /\ last[1].called
    /\ {"sample_a", "sample_b", "t_stat", "p_value"} \subseteq globals[1]
    /\ Len(sample_a[1]) = 1000
    /\ t_stat[1] # 0

\* C3: no call of add_two with an integer argument ends in an error: every
\* call made has returned a value and has left the run free of exceptions.
C3_CallNeverRaises ==
    \A r \in Runs :
        last[r].called =>
            /\ last[r].outcome = "return"
            /\ err[r] = "none"
            /\ pc[r] = "done"

\* add_two has been called with a negative argument.
C3_Witness ==
    /\ last[1].called
    /\ last[1].arg < 0
    /\ last[1].outcome = "return"

\* C5: the script makes exactly two generator calls, one for sample_a and one
\* for sample_b; when the t-test is about to be invoked, and ever after it
\* was invoked, both samples are bound and each has exactly 1000 values.
C5_TwoSamplesOfThousand ==
    \A r \in Runs :
        /\ lib_calls[r].randn <= 2
        /\ (pc[r] = "ttest" \/ lib_calls[r].ttest_ind > 0) =>
              /\ {"sample_a", "sample_b"} \subseteq globals[r]
              /\ lib_calls[r].randn = 2
              /\ Len(sample_a[r]) = 1000
              /\ Len(sample_b[r]) = 1000
        /\ pc[r] \in {"def", "done"} => lib_calls[r].randn = 2

\* The t-test has been invoked on two samples of 1000 values.
C5_Witness ==
    /\ lib_calls[1].ttest_ind = 1
    /\ Len(sample_a[1]) = 1000
    /\ Len(sample_b[1]) = 1000

\* C6: t_stat and p_value are computed by one t-test call, made when both
\* samples are already bound; once bound, t_stat and p_value keep their
\* values in every later step, and so do sample_a and sample_b once drawn.
C6_ResultsComputedOnceAndKept ==
    [][\A r \in Runs :
          /\ lib_calls'[r].ttest_ind <= 1
          /\ ("t_stat" \notin globals[r] /\ "t_stat" \in globals'[r]) =>
                /\ {"sample_a", "sample_b"} \subseteq globals[r]
                /\ "p_value" \in globals'[r]
                /\ lib_calls[r].ttest_ind = 0
                /\ lib_calls'[r].ttest_ind = 1
          /\ "t_stat" \in globals[r] =>
                /\ "t_stat" \in globals'[r]
                /\ t_stat'[r] = t_stat[r]
          /\ "p_value" \in globals[r] =>
                /\ "p_value" \in globals'[r]
                /\ p_value'[r] = p_value[r]
          /\ "sample_a" \in globals[r] =>
                /\ "sample_a" \in globals'[r]
                /\ sample_a'[r] = sample_a[r]
          /\ "sample_b" \in globals[r] =>
                /\ "sample_b" \in globals'[r]
                /\ sample_b'[r] = sample_b[r]]_vars

\* The results were computed, add_two was defined and called afterwards.
C6_Witness ==
    /\ lib_calls[1].ttest_ind = 1
    /\ {"t_stat", "p_value", "add_two"} \subseteq globals[1]
    /\ p_value[1] # 0
    /\ last[1].called

\* The statements holding the sampling and t-test library calls.
LibraryStmts == {"draw_a", "draw_b", "ttest"}

\* C7: a fault raised by a sampling or t-test call is neither caught nor
\* retried: the run is in the error state at that statement, the call that
\* raised was made once and not again, t_stat, p_value and add_two are
\* unbound, and the run stays there with nothing changed.
C7_FaultEndsTheScript ==
    /\ [](\A r \in Runs :
            err[r] \in LibraryStmts =>
                /\ pc[r] = "error"
                /\ "t_stat" \notin globals[r]
                /\ "p_value" \notin globals[r]
                /\ "add_two" \notin globals[r]
                /\ ~last[r].called
                /\ lib_calls[r].randn =
                      (IF err[r] = "draw_a" THEN 1 ELSE 2)
                /\ lib_calls[r].ttest_ind =
                      (IF err[r] = "ttest" THEN 1 ELSE 0))
    /\ [][\A r \in Runs :
            (pc[r] = "error" /\ err[r] \in LibraryStmts) =>
                /\ pc'[r] = "error"
                /\ err'[r] = err[r]
                /\ globals'[r] = globals[r]
                /\ lib_calls'[r] = lib_calls[r]
                /\ last'[r] = last[r]]_vars

\* The t-test call has faulted after both samples were drawn.
C7_Witness ==
    /\ pc[1] = "error"
    /\ err[1] = "ttest"
    /\ lib_calls[1].ttest_ind = 1
    /\ {"sample_a", "sample_b"} \subseteq globals[1]

\* C8: add_two never wraps: for every argument, also next to the limits of
\* the 16-bit and 32-bit integer types, the result is strictly greater than
\* the argument and exceeds it by 2.
C8_NoWrapAround ==
    \A r \in Runs :
        last[r].called =>
            /\ last[r].ret > last[r].arg
            /\ last[r].ret - 2 = last[r].arg

\* add_two has been called with the largest 16-bit signed integer or more.
C8_Witness ==
    /\ last[1].called
    /\ last[1].arg >= 32767
    /\ last[1].ret > last[1].arg

\* C9: the result of add_two depends on its argument only: calls with the
\* same argument in two runs return the same value, whatever samples and
\* test results the runs hold, and a call repeated with the same argument
\* within a run returns what the previous one returned.
C9_ResultDependsOnArgOnly ==
    /\ [](\A r1 \in Runs : \A r2 \in Runs :
            (last[r1].called /\ last[r2].called
                /\ last[r1].arg = last[r2].arg) =>
                /\ last[r1].ret = last[r2].ret
                /\ last[r1].outcome = last[r2].outcome)
    /\ [][\A r \in Runs :
            (last[r].called /\ last'[r].called
                /\ last'[r].arg = last[r].arg) =>
                last'[r].ret = last[r].ret]_vars

\* Two runs that drew different samples and obtained different test results
\* have both called add_two with the same argument.
C9_Witness ==
    /\ last[1].called
    /\ last[2].called
    /\ last[1].arg = last[2].arg
    /\ sample_a[1] # sample_a[2]
    /\ t_stat[1] # t_stat[2]
    /\ p_value[1] # p_value[2]
    /\ last[1].ret = last[2].ret

=============================================================================
